---- MODULE Spec2Model ----
(***************************************************************************)
(* Model of the SES domain-identity CLI (src/index.js): one invocation of *)
(* the `check` or the `list` command, from the parsed options to the end   *)
(* of the action callback.  Every await of the callback (a prompt or a     *)
(* remote call) is one step; the user's answers and the provider's         *)
(* responses are chosen nondeterministically from small sets.              *)
(*                                                                         *)
(* Conventions: a JavaScript string-or-undefined slot holds a string, with *)
(* `undefined` as the absent value; an object-or-undefined slot holds a    *)
(* sequence of length 0 (absent) or 1 (present).                           *)
(***************************************************************************)
EXTENDS Naturals, Sequences, FiniteSets, TLC

\* ---------------------------------------------------------------- bounds
MaxTokens == 2
MaxIdentities == 2

\* ------------------------------------------------------- JavaScript values
undefined == "undefined"

Falsy(s) == s = undefined \/ s = ""

Some(o) == o # <<>>

Range(s) == {s[i] : i \in 1..Len(s)}

\* ------------------------------------------------------------ input sets
TokenPool == <<"tk1", "tk2", "tk3", "tk4">>

DkimTokens == {TokenPool[i] : i \in 1..MaxTokens}

\* provider-issued DKIM token lists: distinct tokens, any order
TokenSeqs ==
  {s \in UNION {[1..n -> DkimTokens] : n \in 0..MaxTokens} :
     \A i, j \in 1..Len(s) : i # j => s[i] # s[j]}

DkimAttributesValues ==
  {<<>>} \cup
  {<<[Status |-> st, Tokens |-> tk]>> :
     st \in {"SUCCESS", "PENDING"}, tk \in {<<>>} \cup {<<s>> : s \in TokenSeqs}}

\* VerificationAttributes: absent, or a map from identity names to entries
VerificationAttributesValues(dn, tokens) ==
  {<<>>, << <<>> >>} \cup
  {<<[d \in {dn} |-> [VerificationToken |-> t]]>> : t \in tokens}

GetEmailIdentityResponses(dn) ==
  [VerifiedForSendingStatus : BOOLEAN,
   DkimAttributes : DkimAttributesValues,
   VerificationAttributes : VerificationAttributesValues(dn, {"vatok"}),
   VerificationToken : {undefined, "ptok"}]

GetIdentityVerificationAttributesResponses(dn) ==
  [VerificationAttributes :
     VerificationAttributesValues(dn, {undefined, "ltok"})]

CreateEmailIdentityResponses == [DkimAttributes : DkimAttributesValues]

IdentityPool ==
  {[IdentityName |-> "example.com", IdentityType |-> "DOMAIN"],
   [IdentityName |-> "user@example.com", IdentityType |-> "EMAIL_ADDRESS"]}

ListEmailIdentitiesResponses ==
  [EmailIdentities :
     {<<>>} \cup
     {<<s>> : s \in UNION {[1..n -> IdentityPool] : n \in 0..MaxIdentities}}]

ErrorNames == {"NotFoundException", "AccessDeniedException"}

OptionValues ==
  [region : {undefined, "us-east-1"}, domain : {undefined, "example.com"}]

RegionAnswers == {undefined, "", "eu-west-1"}

NewDomainAnswers == {undefined, "", "new.example.org"}

ConfirmAnswers == {"true", "false", undefined}

\* ------------------------------------------------------------------ state
VARIABLES
  cmd,              \* the subcommand commander dispatched to
  pc,               \* position in the action callback
  options,          \* parsed command-line options
  responses,        \* the callback's `responses` object
  EmailIdentities,  \* the identities listed (check: the DOMAIN ones)
  domainChoices,    \* check: values of the select prompt's choices
  domain,           \* check: the local `domain`
  apiResponse,      \* check: GetEmailIdentity response (absent or present)
  tokenResp,        \* check: legacy GetIdentityVerificationAttributes response
  identity,         \* check: the merged identity handed to the formatter
  error,            \* name of the error caught by check's catch block
  calls,            \* remote calls issued, in order, with their outcome
  asked,            \* prompts shown, in order, with their answer
  out,              \* console output, in order
  dnsLines,         \* check: the lines collected for the export
  file              \* the export file written (absent or present)

vars == <<cmd, pc, options, responses, EmailIdentities, domainChoices,
          domain, apiResponse, tokenResp, identity, error, calls, asked, out,
          dnsLines, file>>

Log(text) == [stream |-> "log", text |-> text]

Err(text) == [stream |-> "error", text |-> text]

Call(client, op, result) == [client |-> client, op |-> op, result |-> result]

Ask(name, answer) == [name |-> name, answer |-> answer]

\* --------------------------------------------------------- the formatter
RECURSIVE DkimRecordLines(_, _)
DkimRecordLines(tokens, dn) ==
  IF tokens = <<>> THEN <<>>
  ELSE << Log("Type:  CNAME"),
          Log("Name:  " \o Head(tokens) \o "._domainkey." \o dn),
          Log("Value: " \o Head(tokens) \o ".dkim.amazonses.com"),
          Log("Add this CNAME record to your DNS to enable DKIM for your domain.\n") >>
       \o DkimRecordLines(Tail(tokens), dn)

AmazonSesRecordLines(token, dn) ==
  << Log("\n--- _amazonses TXT Record (for domain verification) ---"),
     Log("Type:  TXT"),
     Log("Name:  _amazonses." \o dn),
     Log("Value: " \o token),
     Log("Add this TXT record to your DNS to verify your domain with SES.\n") >>

displayDnsRecords(id, dn) ==
  << Log("\nDNS Records Required:"),
     Log("Add the following records to your domain's DNS settings.") >>
  \o (IF Some(id.DkimAttributes) /\ Some(id.DkimAttributes[1].Tokens)
      THEN << Log("\n--- DKIM Records (for email authentication) ---") >>
           \o DkimRecordLines(id.DkimAttributes[1].Tokens[1], dn)
      ELSE << Log("\n--- DKIM Records ---"),
              Log("DKIM records are already configured or not yet generated.") >>)
  \o (IF /\ Some(id.VerificationAttributes)
         /\ dn \in DOMAIN id.VerificationAttributes[1]
         /\ ~Falsy(id.VerificationAttributes[1][dn].VerificationToken)
      THEN AmazonSesRecordLines(
             id.VerificationAttributes[1][dn].VerificationToken, dn)
      ELSE IF ~Falsy(id.VerificationToken)
      THEN AmazonSesRecordLines(id.VerificationToken, dn)
      ELSE << Log("\n--- _amazonses TXT Record (for domain verification) ---"),
              Log("No verification token found in SES response. If domain is already verified, this is expected.") >>)
  \o << Log("\n--- _dmarc TXT Record (for DMARC policy) ---"),
        Log("Type:  TXT"),
        Log("Name:  _dmarc." \o dn),
        Log("Value: v=DMARC1; p=none;"),
        Log("Add this TXT record to your DNS to set a DMARC policy. Adjust the value as needed for your policy.\n") >>

displaySmtpSettings(region) ==
  << Log("\nSMTP Client Configuration:"),
     Log("Use these settings in your email sending application."),
     Log("\n--- SMTP Server Settings ---"),
     Log("Endpoint: email-smtp." \o region \o ".amazonaws.com"),
     Log("Port:     587 (TLS), 465 (SSL), or 2587"),
     Log("\n--- SMTP Credentials ---"),
     Log("To get your SMTP username and password:"),
     Log("1. Go to the AWS Console -> IAM -> Users."),
     Log("2. Select or create an IAM user."),
     Log("3. Go to the 'Security credentials' tab."),
     Log("4. Under 'Amazon SES SMTP credentials', click 'Create SMTP credentials'."),
     Log("This will generate a unique SMTP username and password. Store them securely.\n") >>

\* ------------------------------------------------------------- the export
AmazonSesLine(token, dn) ==
  "_amazonses." \o dn \o ".\t1\tIN\tTXT\t\"" \o token \o "\""

DkimLine(token, dn) ==
  token \o "._domainkey." \o dn \o ".\t1\tIN\tCNAME\t" \o token
        \o ".dkim.amazonses.com."

DmarcLine(dn) ==
  "_dmarc." \o dn \o ".\t1\tIN\tTXT\t\"v=DMARC1; p=none;\""

RECURSIVE DkimExportLines(_, _)
DkimExportLines(tokens, dn) ==
  IF tokens = <<>> THEN <<>>
  ELSE <<DkimLine(Head(tokens), dn)>> \o DkimExportLines(Tail(tokens), dn)

\* variant: the DKIM lines are collected before the _amazonses line
ExportLines_DkimFirst(id, dn) ==
  (IF Some(id.DkimAttributes) /\ Some(id.DkimAttributes[1].Tokens)
   THEN DkimExportLines(id.DkimAttributes[1].Tokens[1], dn) ELSE <<>>)
  \o (IF ~Falsy(id.VerificationToken)
      THEN <<AmazonSesLine(id.VerificationToken, dn)>> ELSE <<>>)
  \o <<DmarcLine(dn)>>

ExportLines(id, dn) ==
  (IF ~Falsy(id.VerificationToken)
   THEN <<AmazonSesLine(id.VerificationToken, dn)>> ELSE <<>>)
  \o (IF Some(id.DkimAttributes) /\ Some(id.DkimAttributes[1].Tokens)
      THEN DkimExportLines(id.DkimAttributes[1].Tokens[1], dn) ELSE <<>>)
  \o <<DmarcLine(dn)>>

RECURSIVE JoinLines(_)
JoinLines(lines) ==
  IF lines = <<>> THEN ""
  ELSE IF Len(lines) = 1 THEN lines[1]
  ELSE lines[1] \o "\n" \o JoinLines(Tail(lines))

ExportFile(lines, dn) ==
  [path |-> dn \o ".dns.txt", content |-> JoinLines(lines) \o "\n"]

\* ------------------------------------------------------------------- Init
Init ==
  /\ cmd \in {"check", "list"}
  /\ options \in OptionValues
  /\ (cmd = "list" => options.domain = undefined)
  /\ pc = "start"
  /\ responses = options
  /\ EmailIdentities = <<>>
  /\ domainChoices = <<>>
  /\ domain = undefined
  /\ apiResponse = <<>>
  /\ tokenResp = <<>>
  /\ identity = <<>>
  /\ error = undefined
  /\ calls = <<>>
  /\ asked = <<>>
  /\ out = <<>>
  /\ dnsLines = <<>>
  /\ file = <<>>

\* ------------------------------------------------------------ check: input
\* lines 110-119: the region prompt, shown when --region is missing
CheckPromptRegion ==
  /\ cmd = "check" /\ pc = "start" /\ Falsy(options.region)
  /\ \E a \in RegionAnswers :
       /\ asked' = Append(asked, Ask("region", a))
       /\ responses' = IF a = undefined THEN options
                       ELSE [options EXCEPT !.region = a]
  /\ pc' = "list"
  /\ UNCHANGED <<cmd, options, EmailIdentities, domainChoices, domain,
                 apiResponse, tokenResp, identity, error, calls, out, dnsLines,
                 file>>

DomainIdentities(list) == SelectSeq(list, LAMBDA e : e.IdentityType = "DOMAIN")

\* variant: the "add new" sentinel is not pushed
DomainChoices_NoSentinel(list) ==
  [i \in 1..Len(list) |-> list[i].IdentityName]

DomainChoices(list) ==
  [i \in 1..Len(list) |-> list[i].IdentityName] \o <<"__new__">>

\* lines 137-164: where the flow goes once `domain` has a value
AfterDomain(d) ==
  IF Falsy(d) THEN "done" ELSE IF d = "__new__" THEN "newDomain"
  ELSE "getIdentity"

\* lines 121-146: create the client, list the identities, build the choices
CheckListEmailIdentities ==
  /\ cmd = "check"
  /\ pc = "list" \/ (pc = "start" /\ ~Falsy(options.region))
  /\ \/ \E r \in ListEmailIdentitiesResponses :
          /\ EmailIdentities' =
               DomainIdentities(IF Some(r.EmailIdentities)
                                THEN r.EmailIdentities[1] ELSE <<>>)
          /\ calls' = Append(calls, Call("sesv2", "ListEmailIdentities", "ok"))
          /\ out' = out
     \/ \E e \in ErrorNames :
          /\ EmailIdentities' = <<>>
          /\ calls' = Append(calls, Call("sesv2", "ListEmailIdentities", e))
          /\ out' = Append(out, Log("Could not fetch domain list: " \o e))
  /\ domainChoices' = DomainChoices(EmailIdentities')
  /\ domain' = options.domain
  /\ pc' = IF Falsy(options.domain) THEN "selectDomain"
           ELSE AfterDomain(options.domain)
  /\ UNCHANGED <<cmd, options, responses, apiResponse, tokenResp, identity,
                 error, asked, dnsLines, file>>

\* lines 138-151: the select prompt and the required-domain check
CheckSelectDomain ==
  /\ cmd = "check" /\ pc = "selectDomain"
  /\ \E a \in Range(domainChoices) \cup {undefined} :
       /\ asked' = Append(asked, Ask("domain", a))
       /\ domain' = a
       /\ pc' = AfterDomain(a)
       /\ out' = IF Falsy(a)
                 THEN Append(out, Log("Domain is required. Exiting."))
                 ELSE out
  /\ UNCHANGED <<cmd, options, responses, EmailIdentities, domainChoices,
                 apiResponse, tokenResp, identity, error, calls, dnsLines,
                 file>>

\* lines 153-164: the free-text prompt for a new domain name
CheckNewDomain ==
  /\ cmd = "check" /\ pc = "newDomain"
  /\ \E a \in NewDomainAnswers :
       /\ asked' = Append(asked, Ask("newDomain", a))
       /\ domain' = a
       /\ pc' = IF Falsy(a) THEN "done" ELSE "getIdentity"
       /\ out' = IF Falsy(a)
                 THEN Append(out, Log("Domain is required. Exiting."))
                 ELSE out
  /\ UNCHANGED <<cmd, options, responses, EmailIdentities, domainChoices,
                 apiResponse, tokenResp, identity, error, calls, dnsLines,
                 file>>

\* ---------------------------------------------------- check: try and catch
\* variant: every caught error is handled as NotFoundException
CatchTarget_AnyError(e) == "confirm"

\* lines 215, 235: the branch the catch block takes for an error name
CatchTarget(e) == IF e = "NotFoundException" THEN "confirm" ELSE "done"

\* lines 214-216, 235-237: what the catch block prints before any await
CatchOutput(e, d) ==
  IF CatchTarget(e) = "confirm"
  THEN <<Log("\nIdentity for \"" \o d \o "\" not found.")>>
  ELSE <<Err("An unexpected error occurred: " \o e)>>

CheckingLine(d, region) ==
  Log("\nChecking identity for " \o d \o " in " \o region \o "...")

\* lines 166-173: the identity lookup
CheckGetEmailIdentity ==
  /\ cmd = "check" /\ pc = "getIdentity"
  /\ responses' = [responses EXCEPT !.domain = domain]
  /\ \/ \E r \in GetEmailIdentityResponses(domain) :
          /\ apiResponse' = <<r>>
          /\ calls' = Append(calls, Call("sesv2", "GetEmailIdentity", "ok"))
          /\ out' = Append(out, CheckingLine(domain, responses.region))
          /\ pc' = "getToken"
          /\ error' = error
     \/ \E e \in ErrorNames :
          /\ apiResponse' = apiResponse
          /\ calls' = Append(calls, Call("sesv2", "GetEmailIdentity", e))
          /\ out' = Append(out, CheckingLine(domain, responses.region))
                      \o CatchOutput(e, domain)
          /\ pc' = CatchTarget(e)
          /\ error' = e
  /\ UNCHANGED <<cmd, options, EmailIdentities, domainChoices, domain,
                 tokenResp, identity, asked, dnsLines, file>>

\* lines 178-181: the token of the legacy response's entry for the domain
LegacyToken(resp, d) ==
  IF Some(resp.VerificationAttributes)
     /\ d \in DOMAIN resp.VerificationAttributes[1]
  THEN resp.VerificationAttributes[1][d].VerificationToken
  ELSE undefined

\* line 183: { ...apiResponse, VerificationToken: verificationToken }
MergeIdentity(api, verificationToken) ==
  [api EXCEPT !.VerificationToken = verificationToken]

\* lines 187-189: the status lines
StatusLines(id) ==
  << Log("\nDomain Identity Found!"),
     Log("Status: " \o (IF id.VerifiedForSendingStatus THEN "VERIFIED"
                        ELSE "PENDING")),
     Log("DKIM Verified: " \o
         (IF Some(id.DkimAttributes) /\ id.DkimAttributes[1].Status = "SUCCESS"
          THEN "VERIFIED"
          ELSE IF Some(id.DkimAttributes) THEN id.DkimAttributes[1].Status
          ELSE "N/A")) >>

\* lines 174-213: the legacy token fetch, the merge, the display, the export
CheckGetIdentityVerificationAttributes ==
  /\ cmd = "check" /\ pc = "getToken"
  /\ \/ \E t \in GetIdentityVerificationAttributesResponses(responses.domain) :
          LET id == MergeIdentity(apiResponse[1],
                                  LegacyToken(t, responses.domain))
              lines == ExportLines(id, responses.domain)
              saved == ExportFile(lines, responses.domain)
          IN /\ tokenResp' = <<t>>
             /\ identity' = <<id>>
             /\ calls' = Append(calls, Call("ses", "GetIdentityVerificationAttributes", "ok"))
             /\ out' = out \o << Log("\nRaw API Response:"),
                                 [stream |-> "dir", text |-> "identity"] >>
                           \o StatusLines(id)
                           \o displayDnsRecords(id, responses.domain)
                           \o displaySmtpSettings(responses.region)
                           \o <<Log("\nDNS records saved to " \o saved.path)>>
             /\ dnsLines' = lines
             /\ file' = <<saved>>
             /\ pc' = "done"
             /\ error' = error
     \/ \E e \in ErrorNames :
          /\ calls' = Append(calls, Call("ses", "GetIdentityVerificationAttributes", e))
          /\ out' = out \o CatchOutput(e, responses.domain)
          /\ pc' = CatchTarget(e)
          /\ error' = e
          /\ UNCHANGED <<tokenResp, identity, dnsLines, file>>
  /\ UNCHANGED <<cmd, options, responses, EmailIdentities, domainChoices,
                 domain, apiResponse, asked>>

\* variant: the answer of the confirm prompt is not tested
ConfirmTarget_Unchecked(shouldCreate) == "create"

\* line 224: the branch taken for the confirm prompt's answer
ConfirmTarget(shouldCreate) == IF shouldCreate = "true" THEN "create" ELSE "done"

\* lines 217-224: the create confirmation
CheckConfirmCreate ==
  /\ cmd = "check" /\ pc = "confirm"
  /\ \E a \in ConfirmAnswers :
       /\ asked' = Append(asked, Ask("shouldCreate", a))
       /\ pc' = ConfirmTarget(a)
  /\ UNCHANGED <<cmd, options, responses, EmailIdentities, domainChoices,
                 domain, apiResponse, tokenResp, identity, error, calls, out,
                 dnsLines, file>>

\* lines 225-232: create the identity and display its records; a rejected
\* create call leaves the callback as an unhandled rejection
CheckCreateEmailIdentity ==
  /\ cmd = "check" /\ pc = "create"
  /\ \/ \E r \in CreateEmailIdentityResponses :
          /\ calls' = Append(calls, Call("sesv2", "CreateEmailIdentity", "ok"))
          /\ out' = out
               \o << Log("\nCreating new identity for " \o responses.domain \o "..."),
                     Log("\nIdentity creation process initiated!"),
                     Log("It can take up to 72 hours for DNS changes to propagate and verification to complete.") >>
               \o displayDnsRecords([DkimAttributes |-> r.DkimAttributes,
                                     VerificationAttributes |-> <<>>,
                                     VerificationToken |-> undefined],
                                    responses.domain)
               \o displaySmtpSettings(responses.region)
          /\ pc' = "done"
          /\ error' = error
     \/ \E e \in ErrorNames :
          /\ calls' = Append(calls, Call("sesv2", "CreateEmailIdentity", e))
          /\ out' = Append(out, Log("\nCreating new identity for "
                                      \o responses.domain \o "..."))
          /\ pc' = "crashed"
          /\ error' = e
  /\ UNCHANGED <<cmd, options, responses, EmailIdentities, domainChoices,
                 domain, apiResponse, tokenResp, identity, asked, dnsLines,
                 file>>

\* --------------------------------------------------------------- list
\* lines 248-255: the region prompt of `list`
ListPromptRegion ==
  /\ cmd = "list" /\ pc = "start" /\ Falsy(options.region)
  /\ \E a \in RegionAnswers :
       /\ asked' = Append(asked, Ask("region", a))
       /\ responses' = [region |-> a, domain |-> undefined]
  /\ pc' = "fetch"
  /\ UNCHANGED <<cmd, options, EmailIdentities, domainChoices, domain,
                 apiResponse, tokenResp, identity, error, calls, out, dnsLines,
                 file>>

RECURSIVE IdentityLines(_)
IdentityLines(list) ==
  IF list = <<>> THEN <<>>
  ELSE <<Log(Head(list).IdentityName \o " - Type: " \o Head(list).IdentityType)>>
       \o IdentityLines(Tail(list))

\* variant: no return after the empty-result message
ListOutput_NoReturn(list) ==
  (IF Len(list) = 0
   THEN <<Log("No SES identities found in this region.")>> ELSE <<>>)
  \o <<Log("\n--- SES Identities ---")>> \o IdentityLines(list) \o <<Log("\n")>>

\* lines 265-276: what `list` prints for the identities returned
ListOutput(list) ==
  IF Len(list) = 0
  THEN <<Log("No SES identities found in this region.")>>
  ELSE <<Log("\n--- SES Identities ---")>> \o IdentityLines(list) \o <<Log("\n")>>

\* lines 257-280: fetch and print the identities
ListEmailIdentities ==
  /\ cmd = "list"
  /\ pc = "fetch" \/ (pc = "start" /\ ~Falsy(options.region))
  /\ LET fetching == Log("\nFetching identities for region "
                           \o responses.region \o "...")
         failed(e) == Err("An error occurred while fetching identities: " \o e)
     IN \/ \E r \in ListEmailIdentitiesResponses :
             /\ calls' = Append(calls, Call("sesv2", "ListEmailIdentities", "ok"))
             /\ out' = IF Some(r.EmailIdentities)
                       THEN <<fetching>> \o ListOutput(r.EmailIdentities[1])
                       ELSE <<fetching, failed("TypeError")>>
             /\ error' = IF Some(r.EmailIdentities) THEN error ELSE "TypeError"
             /\ EmailIdentities' = IF Some(r.EmailIdentities)
                                   THEN r.EmailIdentities[1] ELSE <<>>
        \/ \E e \in ErrorNames :
             /\ calls' = Append(calls, Call("sesv2", "ListEmailIdentities", e))
             /\ out' = <<fetching, failed(e)>>
             /\ error' = e
             /\ EmailIdentities' = EmailIdentities
  /\ pc' = "done"
  /\ UNCHANGED <<cmd, options, responses, domainChoices, domain, apiResponse,
                 tokenResp, identity, asked, dnsLines, file>>

\* ------------------------------------------------------------------- Next
Next ==
  \/ CheckPromptRegion
  \/ CheckListEmailIdentities
  \/ CheckSelectDomain
  \/ CheckNewDomain
  \/ CheckGetEmailIdentity
  \/ CheckGetIdentityVerificationAttributes
  \/ CheckConfirmCreate
  \/ CheckCreateEmailIdentity
  \/ ListPromptRegion
  \/ ListEmailIdentities

Spec == Init /\ [][Next]_vars

\* ================================================================ claims
Issued(op) == {i \in 1..Len(calls) : calls[i].op = op}

Asked(name) == {j \in 1..Len(asked) : asked[j].name = name}

Printed(entry) == entry \in Range(out)

LinesEqual(line) == {i \in 1..Len(dnsLines) : dnsLines[i] = line}

DnsRecordsDisplayed == Printed(Log("\nDNS Records Required:"))

VerificationTokenValues == {"ptok", "ltok", "vatok"}

\* C1: in every run of check that displays DNS records, each displayed DKIM
\* token and the displayed verification token is in exactly one line of the
\* exported file, and the file has no token line that was not displayed.
C1_DisplayedTokensExportedOnce ==
  (cmd = "check" /\ pc = "done" /\ DnsRecordsDisplayed) =>
    /\ Some(file)
    /\ file[1].content = JoinLines(dnsLines) \o "\n"
    /\ \A t \in DkimTokens :
         IF Printed(Log("Name:  " \o t \o "._domainkey." \o responses.domain))
         THEN Cardinality(LinesEqual(DkimLine(t, responses.domain))) = 1
         ELSE LinesEqual(DkimLine(t, responses.domain)) = {}
    /\ \A v \in VerificationTokenValues :
         IF Printed(Log("Value: " \o v))
         THEN Cardinality(LinesEqual(AmazonSesLine(v, responses.domain))) = 1
         ELSE LinesEqual(AmazonSesLine(v, responses.domain)) = {}

\* C2: the exported file is: one _amazonses TXT line iff the identity's
\* verification token is present, then one CNAME line per DKIM token in token
\* order, then one _dmarc TXT line; nothing else.
C2_ExportShape ==
  Some(file) =>
    LET id == identity[1]
        d == responses.domain
        tokens == IF Some(id.DkimAttributes) /\ Some(id.DkimAttributes[1].Tokens)
                  THEN id.DkimAttributes[1].Tokens[1] ELSE <<>>
        present == ~Falsy(id.VerificationToken)
        off == IF present THEN 1 ELSE 0
        n == Len(tokens)
    IN /\ Len(dnsLines) = off + n + 1
       /\ present => dnsLines[1] = "_amazonses." \o d \o ".\t1\tIN\tTXT\t\""
                                     \o id.VerificationToken \o "\""
       /\ \A i \in 1..n :
            dnsLines[off + i] = tokens[i] \o "._domainkey." \o d
                                  \o ".\t1\tIN\tCNAME\t" \o tokens[i]
                                  \o ".dkim.amazonses.com."
       /\ dnsLines[off + n + 1] = "_dmarc." \o d
                                    \o ".\t1\tIN\tTXT\t\"v=DMARC1; p=none;\""
       /\ (~present /\ n = 0) =>
            file[1].content = "_dmarc." \o d
                                \o ".\t1\tIN\tTXT\t\"v=DMARC1; p=none;\"\n"
       /\ file[1].path = d \o ".dns.txt"
       /\ file[1].content = JoinLines(dnsLines) \o "\n"

C2_Witness ==
  /\ Some(file)
  /\ ~Falsy(identity[1].VerificationToken)
  /\ Some(identity[1].DkimAttributes)
  /\ Some(identity[1].DkimAttributes[1].Tokens)
  /\ Len(identity[1].DkimAttributes[1].Tokens[1]) = 2
  /\ Len(dnsLines) = 4

LookupResult(r) ==
  \E i \in Issued("GetEmailIdentity") : calls[i].result = r

Declined ==
  \E j \in Asked("shouldCreate") : asked[j].answer # "true"

\* C3: when the identity lookup ends in NotFound and the user declines the
\* create confirmation, no createIdentity call is issued and the command ends
\* without reporting an error.
C3_DeclineIssuesNoCreate ==
  (cmd = "check" /\ LookupResult("NotFoundException") /\ Declined) =>
    /\ Issued("CreateEmailIdentity") = {}
    /\ pc = "done"
    /\ \A i \in 1..Len(out) : out[i].stream # "error"
    /\ calls[Len(calls)].op = "GetEmailIdentity"

C3_Witness ==
  /\ LookupResult("NotFoundException")
  /\ \E j \in Asked("shouldCreate") : asked[j].answer = "false"
  /\ pc = "done"

RequiredPrompts == {"region", "domain", "newDomain"}

EmptyRequiredInput ==
  \E j \in 1..Len(asked) :
     asked[j].name \in RequiredPrompts /\ Falsy(asked[j].answer)

\* C4: in check and list, whenever a prompted required input (region,
\* selected domain, new domain name) comes back empty or cancelled, the
\* command prints a message and ends, and no remote call is issued after
\* that prompt.
C4_EmptyInputEndsCommand ==
  /\ [](EmptyRequiredInput =>
          /\ pc = "done"
          /\ out # <<>>
          /\ out[Len(out)].text = "Domain is required. Exiting."
               \/ out[Len(out)].text = "Region is required. Exiting.")
  /\ [][EmptyRequiredInput => calls' = calls]_vars

ListFailed ==
  /\ cmd = "check"
  /\ Issued("ListEmailIdentities") # {}
  /\ calls[1].result \in ErrorNames

\* C5: in check, a failed list-identities call is logged and treated as an
\* empty identity list: the command does not end there, the selection is
\* still offered with the "add new" sentinel as a choice.
C5_ListFailureIsEmptyList ==
  ListFailed =>
    /\ Printed(Log("Could not fetch domain list: " \o calls[1].result))
    /\ EmailIdentities = <<>>
    /\ domainChoices = <<"__new__">>
    /\ Len(calls) = 1 =>
         \/ pc \in {"selectDomain", "newDomain", "getIdentity"}
         \/ /\ pc = "done"
            /\ asked # <<>>
            /\ asked[Len(asked)].name \in {"domain", "newDomain"}
            /\ Falsy(asked[Len(asked)].answer)
    /\ (Falsy(options.domain) /\ pc # "selectDomain") => Asked("domain") # {}

C5_Witness ==
  /\ ListFailed
  /\ Asked("domain") # {}
  /\ domain = "new.example.org"
  /\ Issued("GetEmailIdentity") # {}

AmazonSesNote ==
  Log("No verification token found in SES response. If domain is already verified, this is expected.")

\* C6: after the identity lookup has succeeded, the legacy token fetch is
\* best-effort: whether it returns a token, no entry, or fails, the command
\* renders the DNS records and SMTP settings and writes the export file; an
\* unavailable token only replaces the _amazonses record by a note and drops
\* that line from the export.
C6_LegacyFetchBestEffort ==
  Issued("GetIdentityVerificationAttributes") # {} =>
    /\ DnsRecordsDisplayed
    /\ Printed(Log("\nSMTP Client Configuration:"))
    /\ Some(file)
    /\ \A i \in Issued("GetIdentityVerificationAttributes") :
         (calls[i].result # "ok" \/ Falsy(LegacyToken(tokenResp[1], responses.domain)))
           => /\ Printed(Log("\n--- _dmarc TXT Record (for DMARC policy) ---"))
              /\ \A v \in VerificationTokenValues :
                   LinesEqual(AmazonSesLine(v, responses.domain)) = {}

\* C7: when the identity lookup fails with an error other than NotFound, the
\* error is reported and the operation aborts: no retry, no legacy fetch, no
\* createIdentity call, no create confirmation, no export file.
C7_LookupFailureAborts ==
  \A e \in ErrorNames \ {"NotFoundException"} :
    LookupResult(e) =>
      /\ pc = "done"
      /\ out[Len(out)] = Err("An unexpected error occurred: " \o e)
      /\ Cardinality(Issued("GetEmailIdentity")) = 1
      /\ Issued("GetIdentityVerificationAttributes") = {}
      /\ Issued("CreateEmailIdentity") = {}
      /\ Asked("shouldCreate") = {}
      /\ file = <<>>
      /\ ~DnsRecordsDisplayed

C7_Witness ==
  /\ LookupResult("AccessDeniedException")
  /\ pc = "done"

\* the verification token the primary response carries
PrimaryToken(api, d) ==
  IF /\ Some(api.VerificationAttributes)
     /\ d \in DOMAIN api.VerificationAttributes[1]
     /\ ~Falsy(api.VerificationAttributes[1][d].VerificationToken)
  THEN api.VerificationAttributes[1][d].VerificationToken
  ELSE api.VerificationToken

\* C8: the verification token displayed and exported by check is the primary
\* API's token whenever the primary response carries one, and the legacy
\* API's token only when the primary response omits it; the displayed and
\* the exported value are the same.
C8_PrimaryTokenWins ==
  Some(file) =>
    LET d == responses.domain
        primary == PrimaryToken(apiResponse[1], d)
        expected == IF ~Falsy(primary) THEN primary
                    ELSE LegacyToken(tokenResp[1], d)
    IN \A v \in VerificationTokenValues :
         /\ Printed(Log("Value: " \o v)) <=> v = expected
         /\ LinesEqual(AmazonSesLine(v, d)) # {} <=> v = expected

C9_Witness ==
  /\ cmd = "list" /\ pc = "done" /\ error = undefined
  /\ Len(EmailIdentities) = 2
  /\ EmailIdentities[1] # EmailIdentities[2]

C10_CreateOnlyAfterLookupNotFound ==
  /\ (Asked("shouldCreate") # {} \/ Issued("CreateEmailIdentity") # {})
       => LookupResult("NotFoundException")
  /\ Issued("CreateEmailIdentity") # {}
       => \E j \in Asked("shouldCreate") : asked[j].answer = "true"
  /\ Cardinality(Issued("CreateEmailIdentity")) <= 1
  /\ LookupResult("ok")
       => (Asked("shouldCreate") = {} /\ Issued("CreateEmailIdentity") = {})

====
